---- MODULE Spec2Model ----
(***************************************************************************)
(* Calendar diff engine of ICSAnalyzer (src/src/calendar_analyzer.py):     *)
(* detect_event_changes_detailed, classify_event_changes,                  *)
(* _get_detailed_property_changes, _sort_changes_chronologically and the   *)
(* statistics of generate_event_semantic_diff; the conversion of an AWS    *)
(* Change Calendar document by normalize_aws_calendar_to_ics and           *)
(* _parse_aws_datetime; two threads calling generate_event_semantic_diff   *)
(* on one analyzer.                                                        *)
(*                                                                         *)
(* Event records are Python dicts.  A dict field is modelled by a string   *)
(* (uid, summary, description, categories) or by a date record (dtstart,   *)
(* dtend).  Absent stands for a key that is missing from the dict, NoneV   *)
(* for a key that holds None.                                              *)
(***************************************************************************)
EXTENDS Integers, Sequences, FiniteSets, TLC

\* ------------------------------------------------------------------ bounds
\* Largest day offset of a date-time (day t is 2024-01-(t+1) 00:00:00).
MaxTime == 1
\* Largest number of events in events1 and events2 together.
MaxEvents == 3
\* Largest number of records (events or periods) of an AWS calendar document.
MaxRecords == 2
\* Number of events in each list of the specification of matched lists.
ListLen == 2

\* ------------------------------------------------------------------ values
Absent == "<absent>"
NoneV == "<None>"

\* Values of a text field in the inputs the model enumerates.
TextValues == {Absent, NoneV, "", "a"}

\* A date field: a missing key, None, a timezone-naive or a timezone-aware
\* datetime.
AbsentDate == [kind |-> "absent", t |-> 0]
NoneDate == [kind |-> "none", t |-> 0]
Times == 0..MaxTime
DateTimes == [kind : {"naive", "aware"}, t : Times]
DateValues == {AbsentDate, NoneDate} \cup DateTimes

\* datetime.min: naive, earlier than every other datetime.
DatetimeMin == [kind |-> "naive", t |-> -1]

IsDateTime(v) == v.kind \in {"naive", "aware"}

\* dict.get(key) (default None) on a date field and on a text field.
GetDate(v) == IF v = AbsentDate THEN NoneDate ELSE v
GetText(v) == IF v = Absent THEN NoneV ELSE v
\* dict.get(key, '') on a text field.
GetTextDefault(v) == IF v = Absent THEN "" ELSE v

\* str(x) of a text value: str(None) is the string 'None'.
PyStr(v) == IF v = NoneV THEN "None" ELSE v

\* Python truthiness of a text value: None and '' are falsy.
Truthy(v) == v \notin {NoneV, ""}

\* datetime.isoformat() and str(datetime).
DayString(d) == "2024-01-0" \o ToString(d.t + 1)
OffsetString(d) == IF d.kind = "aware" THEN "+00:00" ELSE ""
Isoformat(d) == DayString(d) \o "T00:00:00" \o OffsetString(d)
DateStr(d) == DayString(d) \o " 00:00:00" \o OffsetString(d)

\* end - start raises TypeError when one is naive and the other aware.
SubtractRaises(a, b) == a.kind # b.kind
Subtract(a, b) == a.t - b.t

TextProps == <<"summary", "description", "categories">>

\* ------------------------------------------------------------------ classify_event_changes
\* Mutation: the two answers of the duration comparison are exchanged.
ClassifyDatesSwapped(event1, event2) ==
    LET s1 == GetDate(event1.dtstart)
        e1 == GetDate(event1.dtend)
        s2 == GetDate(event2.dtstart)
        e2 == GetDate(event2.dtend)
    IN  IF IsDateTime(s1) /\ IsDateTime(e1) /\ IsDateTime(s2) /\ IsDateTime(e2)
        THEN IF SubtractRaises(e1, s1) \/ SubtractRaises(e2, s2)
             THEN [raised |-> TRUE, value |-> "modified"]
             ELSE IF Subtract(e1, s1) # Subtract(e2, s2)
                  THEN [raised |-> FALSE, value |-> "moved"]
                  ELSE [raised |-> FALSE, value |-> "duration_changed"]
        ELSE [raised |-> FALSE, value |-> "moved"]

\* Mutation: no except clause, the TypeError of the subtraction gets out.
ClassifyDatesReraise(event1, event2) ==
    LET s1 == GetDate(event1.dtstart)
        e1 == GetDate(event1.dtend)
        s2 == GetDate(event2.dtstart)
        e2 == GetDate(event2.dtend)
    IN  IF IsDateTime(s1) /\ IsDateTime(e1) /\ IsDateTime(s2) /\ IsDateTime(e2)
        THEN IF SubtractRaises(e1, s1) \/ SubtractRaises(e2, s2)
             THEN [raised |-> TRUE, value |-> "TypeError"]
             ELSE IF Subtract(e1, s1) # Subtract(e2, s2)
                  THEN [raised |-> FALSE, value |-> "duration_changed"]
                  ELSE [raised |-> FALSE, value |-> "moved"]
        ELSE [raised |-> FALSE, value |-> "moved"]

\* Mutation: only a longer second event is a change of duration.
ClassifyDatesLongerOnly(event1, event2) ==
    LET s1 == GetDate(event1.dtstart)
        e1 == GetDate(event1.dtend)
        s2 == GetDate(event2.dtstart)
        e2 == GetDate(event2.dtend)
    IN  IF IsDateTime(s1) /\ IsDateTime(e1) /\ IsDateTime(s2) /\ IsDateTime(e2)
        THEN IF SubtractRaises(e1, s1) \/ SubtractRaises(e2, s2)
             THEN [raised |-> TRUE, value |-> "modified"]
             ELSE IF Subtract(e1, s1) < Subtract(e2, s2)
                  THEN [raised |-> FALSE, value |-> "duration_changed"]
                  ELSE [raised |-> FALSE, value |-> "moved"]
        ELSE [raised |-> FALSE, value |-> "moved"]

\* Mutation: the except branch answers 'moved'.
ClassifyDatesFallbackMoved(event1, event2) ==
    LET s1 == GetDate(event1.dtstart)
        e1 == GetDate(event1.dtend)
        s2 == GetDate(event2.dtstart)
        e2 == GetDate(event2.dtend)
    IN  IF IsDateTime(s1) /\ IsDateTime(e1) /\ IsDateTime(s2) /\ IsDateTime(e2)
        THEN IF SubtractRaises(e1, s1) \/ SubtractRaises(e2, s2)
             THEN [raised |-> TRUE, value |-> "moved"]
             ELSE IF Subtract(e1, s1) # Subtract(e2, s2)
                  THEN [raised |-> FALSE, value |-> "duration_changed"]
                  ELSE [raised |-> FALSE, value |-> "moved"]
        ELSE [raised |-> FALSE, value |-> "moved"]

ClassifyDates(event1, event2) ==
    LET s1 == GetDate(event1.dtstart)
        e1 == GetDate(event1.dtend)
        s2 == GetDate(event2.dtstart)
        e2 == GetDate(event2.dtend)
    IN  IF IsDateTime(s1) /\ IsDateTime(e1) /\ IsDateTime(s2) /\ IsDateTime(e2)
        THEN IF SubtractRaises(e1, s1) \/ SubtractRaises(e2, s2)
             THEN [raised |-> TRUE, value |-> "modified"]
             ELSE IF Subtract(e1, s1) # Subtract(e2, s2)
                  THEN [raised |-> FALSE, value |-> "duration_changed"]
                  ELSE [raised |-> FALSE, value |-> "moved"]
        ELSE [raised |-> FALSE, value |-> "moved"]

TextDiffers(event1, event2, prop) ==
    PyStr(GetTextDefault(event1[prop])) # PyStr(GetTextDefault(event2[prop]))

ClassifyText(event1, event2) ==
    IF \E i \in 1..Len(TextProps) : TextDiffers(event1, event2, TextProps[i])
    THEN [raised |-> FALSE, value |-> "modified"]
    ELSE [raised |-> FALSE, value |-> "unchanged"]

\* raised: the except branch was taken (a warning is logged, 'modified' is
\* returned).
ClassifyResult(event1, event2) ==
    LET dtstart_changed == GetDate(event1.dtstart) # GetDate(event2.dtstart)
        dtend_changed == GetDate(event1.dtend) # GetDate(event2.dtend)
    IN  IF dtstart_changed \/ dtend_changed
        THEN ClassifyDates(event1, event2)
        ELSE ClassifyText(event1, event2)

classify_event_changes(event1, event2) == ClassifyResult(event1, event2).value

\* ------------------------------------------------------------------ _get_detailed_property_changes
\* Mutation: a date is compared only when both sides are datetimes.
DateChangeBothOnly(prop, value1, value2) ==
    IF IsDateTime(value1) /\ IsDateTime(value2) /\ value1 # value2
    THEN <<[property |-> prop, old_value |-> Isoformat(value1),
            new_value |-> Isoformat(value2), change_type |-> "datetime"]>>
    ELSE << >>

\* Mutation: two datetimes are compared by their wall-clock time only.
DateChangeIgnoringTzinfo(prop, value1, value2) ==
    IF IsDateTime(value1) /\ IsDateTime(value2)
    THEN IF value1.t # value2.t
         THEN <<[property |-> prop, old_value |-> Isoformat(value1),
                 new_value |-> Isoformat(value2), change_type |-> "datetime"]>>
         ELSE << >>
    ELSE LET str_value1 == IF IsDateTime(value1) THEN DateStr(value1) ELSE ""
             str_value2 == IF IsDateTime(value2) THEN DateStr(value2) ELSE ""
         IN  IF str_value1 # str_value2
             THEN <<[property |-> prop, old_value |-> str_value1,
                     new_value |-> str_value2, change_type |-> "string"]>>
             ELSE << >>

DateChange(prop, value1, value2) ==
    IF IsDateTime(value1) /\ IsDateTime(value2)
    THEN IF value1 # value2
         THEN <<[property |-> prop, old_value |-> Isoformat(value1),
                 new_value |-> Isoformat(value2), change_type |-> "datetime"]>>
         ELSE << >>
    ELSE LET str_value1 == IF IsDateTime(value1) THEN DateStr(value1) ELSE ""
             str_value2 == IF IsDateTime(value2) THEN DateStr(value2) ELSE ""
         IN  IF str_value1 # str_value2
             THEN <<[property |-> prop, old_value |-> str_value1,
                     new_value |-> str_value2, change_type |-> "string"]>>
             ELSE << >>

TextChange(prop, value1, value2) ==
    LET str_value1 == IF Truthy(value1) THEN PyStr(value1) ELSE ""
        str_value2 == IF Truthy(value2) THEN PyStr(value2) ELSE ""
    IN  IF str_value1 # str_value2
        THEN <<[property |-> prop, old_value |-> str_value1,
                new_value |-> str_value2, change_type |-> "string"]>>
        ELSE << >>

get_detailed_property_changes(event1, event2) ==
    TextChange("summary", GetText(event1.summary), GetText(event2.summary))
    \o TextChange("description", GetText(event1.description), GetText(event2.description))
    \o TextChange("categories", GetText(event1.categories), GetText(event2.categories))
    \o DateChange("dtstart", GetDate(event1.dtstart), GetDate(event2.dtstart))
    \o DateChange("dtend", GetDate(event1.dtend), GetDate(event2.dtend))

\* ------------------------------------------------------------------ detect_event_changes_detailed
\* event['uid'] raises KeyError when the key is missing.
UidMissing(events) == \E i \in 1..Len(events) : events[i].uid = Absent

\* Mutation: the comprehension has no 'if event["uid"]' filter.
RECURSIVE UidKeysUnfiltered(_)
UidKeysUnfiltered(events) ==
    IF events = << >> THEN << >>
    ELSE LET n == Len(events)
             before == UidKeysUnfiltered(SubSeq(events, 1, n - 1))
             uid == events[n].uid
         IN  IF \A i \in 1..Len(before) : before[i] # uid
             THEN Append(before, uid)
             ELSE before

\* Keys of {event['uid']: event for event in events if event['uid']} in
\* insertion order: each truthy uid once, at its first occurrence.
RECURSIVE UidKeys(_)
UidKeys(events) ==
    IF events = << >> THEN << >>
    ELSE LET n == Len(events)
             before == UidKeys(SubSeq(events, 1, n - 1))
             uid == events[n].uid
         IN  IF Truthy(uid) /\ \A i \in 1..Len(before) : before[i] # uid
             THEN Append(before, uid)
             ELSE before

HasUid(events, uid) == \E i \in 1..Len(events) : events[i].uid = uid

\* Mutation: the dict keeps the first event of a uid.
EventByUidFirst(events, uid) ==
    LET first == CHOOSE i \in 1..Len(events) :
                     /\ events[i].uid = uid
                     /\ \A j \in 1..(i - 1) : events[j].uid # uid
    IN  events[first]

\* Value of the dict for a key: the last event with that uid.
EventByUid(events, uid) ==
    LET last == CHOOSE i \in 1..Len(events) :
                    /\ events[i].uid = uid
                    /\ \A j \in (i + 1)..Len(events) : events[j].uid # uid
    IN  events[last]

\* Mutation: a moved or duration_changed record gets the date entries only.
ChangedRecordDatesOnly(e1, e2, ctype, uid) ==
    [event1 |-> e1, event2 |-> e2,
     changes |-> IF ctype = "modified"
                 THEN get_detailed_property_changes(e1, e2)
                 ELSE DateChange("dtstart", GetDate(e1.dtstart), GetDate(e2.dtstart))
                      \o DateChange("dtend", GetDate(e1.dtend), GetDate(e2.dtend)),
     change_type |-> ctype, uid |-> uid]

AddedRecord(event, uid) == [event |-> event, change_type |-> "added", uid |-> uid]
DeletedRecord(event, uid) == [event |-> event, change_type |-> "deleted", uid |-> uid]
ChangedRecord(e1, e2, ctype, uid) ==
    [event1 |-> e1, event2 |-> e2, changes |-> get_detailed_property_changes(e1, e2),
     change_type |-> ctype, uid |-> uid]

\* Mutation: the first loop looks the uid up in events2_by_uid.
RECURSIVE AddedOfWrongDict(_, _, _)
AddedOfWrongDict(keys2, ev1, ev2) ==
    IF keys2 = << >> THEN << >>
    ELSE LET uid == Head(keys2)
             rest == AddedOfWrongDict(Tail(keys2), ev1, ev2)
         IN  IF ~HasUid(ev2, uid)
             THEN <<AddedRecord(EventByUid(ev2, uid), uid)>> \o rest
             ELSE rest

\* The records the first loop appends to changes['added'].
RECURSIVE AddedOf(_, _, _)
AddedOf(keys2, ev1, ev2) ==
    IF keys2 = << >> THEN << >>
    ELSE LET uid == Head(keys2)
             rest == AddedOf(Tail(keys2), ev1, ev2)
         IN  IF ~HasUid(ev1, uid)
             THEN <<AddedRecord(EventByUid(ev2, uid), uid)>> \o rest
             ELSE rest

\* The pairs the first loop gives to classify_event_changes, with its answer.
RECURSIVE PairsOf(_, _, _)
PairsOf(keys2, ev1, ev2) ==
    IF keys2 = << >> THEN << >>
    ELSE LET uid == Head(keys2)
             rest == PairsOf(Tail(keys2), ev1, ev2)
         IN  IF HasUid(ev1, uid)
             THEN LET e1 == EventByUid(ev1, uid)
                      e2 == EventByUid(ev2, uid)
                  IN  <<[event1 |-> e1, event2 |-> e2, uid |-> uid,
                         change_type |-> classify_event_changes(e1, e2)]>> \o rest
             ELSE rest

\* The records the first loop appends to changes[ctype].
RECURSIVE ChangedOf(_, _)
ChangedOf(classified, ctype) ==
    IF classified = << >> THEN << >>
    ELSE LET p == Head(classified)
             rest == ChangedOf(Tail(classified), ctype)
         IN  IF p.change_type = ctype
             THEN <<ChangedRecord(p.event1, p.event2, ctype, p.uid)>> \o rest
             ELSE rest

\* Mutation: the second loop looks the uid up in events1_by_uid.
RECURSIVE DeletedOfWrongDict(_, _, _)
DeletedOfWrongDict(keys1, ev1, ev2) ==
    IF keys1 = << >> THEN << >>
    ELSE LET uid == Head(keys1)
             rest == DeletedOfWrongDict(Tail(keys1), ev1, ev2)
         IN  IF ~HasUid(ev1, uid)
             THEN <<DeletedRecord(EventByUid(ev1, uid), uid)>> \o rest
             ELSE rest

\* The records the second loop appends to changes['deleted'].
RECURSIVE DeletedOf(_, _, _)
DeletedOf(keys1, ev1, ev2) ==
    IF keys1 = << >> THEN << >>
    ELSE LET uid == Head(keys1)
             rest == DeletedOf(Tail(keys1), ev1, ev2)
         IN  IF ~HasUid(ev2, uid)
             THEN <<DeletedRecord(EventByUid(ev1, uid), uid)>> \o rest
             ELSE rest

NoChanges ==
    [added |-> << >>, deleted |-> << >>, modified |-> << >>, moved |-> << >>,
     duration_changed |-> << >>]

detect_event_changes_detailed(ev1, ev2) ==
    LET classified == PairsOf(UidKeys(ev2), ev1, ev2)
    IN  [added |-> AddedOf(UidKeys(ev2), ev1, ev2),
         deleted |-> DeletedOf(UidKeys(ev1), ev1, ev2),
         modified |-> ChangedOf(classified, "modified"),
         moved |-> ChangedOf(classified, "moved"),
         duration_changed |-> ChangedOf(classified, "duration_changed")]

\* ------------------------------------------------------------------ statistics
NoStatistics ==
    [added |-> 0, deleted |-> 0, modified |-> 0, moved |-> 0, duration_changed |-> 0,
     unchanged |-> 0]

Statistics(ev1, ev2, ch) ==
    [added |-> Len(ch.added),
     deleted |-> Len(ch.deleted),
     modified |-> Len(ch.modified),
     moved |-> Len(ch.moved),
     duration_changed |-> Len(ch.duration_changed),
     unchanged |-> Len(ev1) + Len(ev2) - Len(ch.added) - Len(ch.deleted)
                   - Len(ch.modified) - Len(ch.moved) - Len(ch.duration_changed)]

\* ------------------------------------------------------------------ _sort_changes_chronologically
\* dict.get('dtstart', datetime.min): the default only for a missing key.
SortDate(event) == IF event.dtstart = AbsentDate THEN DatetimeMin ELSE event.dtstart

Entry(ctype, change) ==
    [change_type |-> ctype,
     sort_date |-> IF ctype \in {"added", "deleted"}
                   THEN SortDate(change.event) ELSE SortDate(change.event2),
     change_data |-> change]

RECURSIVE EntriesOf(_, _)
EntriesOf(ctype, list) ==
    IF list = << >> THEN << >>
    ELSE <<Entry(ctype, Head(list))>> \o EntriesOf(ctype, Tail(list))

\* Mutation: the loop over changes.items() leaves the 'deleted' list out.
AllChangesWithoutDeleted(ch) ==
    EntriesOf("added", ch.added) \o EntriesOf("modified", ch.modified)
    \o EntriesOf("moved", ch.moved) \o EntriesOf("duration_changed", ch.duration_changed)

\* Mutation: the changes dictionary is created with 'deleted' first and 'added' last.
AllChangesDeletedFirst(ch) ==
    EntriesOf("deleted", ch.deleted) \o EntriesOf("modified", ch.modified)
    \o EntriesOf("moved", ch.moved) \o EntriesOf("duration_changed", ch.duration_changed)
    \o EntriesOf("added", ch.added)

\* all_changes before the sort: changes.items() in the dict's key order.
AllChanges(ch) ==
    EntriesOf("added", ch.added) \o EntriesOf("deleted", ch.deleted)
    \o EntriesOf("modified", ch.modified) \o EntriesOf("moved", ch.moved)
    \o EntriesOf("duration_changed", ch.duration_changed)

\* key=lambda x: x['sort_date'] if x['sort_date'] else datetime.min
SortKey(entry) == IF IsDateTime(entry.sort_date) THEN entry.sort_date ELSE DatetimeMin

\* Comparing a naive with an aware datetime raises TypeError.
SortRaises(all) ==
    \E i, j \in 1..Len(all) : SortKey(all[i]).kind # SortKey(all[j]).kind

\* Mutation: the list is sorted with reverse=True.
RECURSIVE StableSortReverse(_)
StableSortReverse(all) ==
    IF all = << >> THEN << >>
    ELSE LET n == Len(all)
             done == StableSortReverse(SubSeq(all, 1, n - 1))
             x == all[n]
             k == Cardinality({i \in 1..Len(done) : SortKey(done[i]).t >= SortKey(x).t})
         IN  SubSeq(done, 1, k) \o <<x>> \o SubSeq(done, k + 1, Len(done))

\* list.sort is stable: an entry goes behind the entries whose key is not larger.
RECURSIVE StableSort(_)
StableSort(all) ==
    IF all = << >> THEN << >>
    ELSE LET n == Len(all)
             done == StableSort(SubSeq(all, 1, n - 1))
             x == all[n]
             k == Cardinality({i \in 1..Len(done) : SortKey(done[i]).t <= SortKey(x).t})
         IN  SubSeq(done, 1, k) \o <<x>> \o SubSeq(done, k + 1, Len(done))

sort_changes_chronologically(ch) == StableSort(AllChanges(ch))

\* ------------------------------------------------------------------ _parse_aws_datetime
\* The formats tried in order.
Formats ==
    <<"%Y-%m-%dT%H:%M:%SZ", "%Y-%m-%dT%H:%M:%S.%fZ", "%Y-%m-%d", "%Y-%m-%dT%H:%M:%S",
      "%Y/%m/%d %H:%M:%S">>

Midnight(t) == [kind |-> "naive", t |-> t]

\* Midnight of day t written in a format.
Written(t, fmt) ==
    CASE fmt = "%Y-%m-%dT%H:%M:%SZ" -> DayString(Midnight(t)) \o "T00:00:00Z"
      [] fmt = "%Y-%m-%dT%H:%M:%S.%fZ" -> DayString(Midnight(t)) \o "T00:00:00.000000Z"
      [] fmt = "%Y-%m-%d" -> DayString(Midnight(t))
      [] fmt = "%Y-%m-%dT%H:%M:%S" -> DayString(Midnight(t)) \o "T00:00:00"
      [] fmt = "%Y/%m/%d %H:%M:%S" -> "2024/01/0" \o ToString(t + 1) \o " 00:00:00"
\* Midnight of day t with a UTC offset, a form none of the formats accepts.
WrittenWithOffset(t) == DayString(Midnight(t)) \o "T00:00:00+00:00"

\* The strings of each format and the strings with an offset, by day.
WrittenIn == [i \in 1..Len(Formats) |-> [t \in Times |-> Written(t, Formats[i])]]
OffsetForms == [t \in Times |-> WrittenWithOffset(t)]
FormatIndex(fmt) == CHOOSE i \in 1..Len(Formats) : Formats[i] = fmt

\* datetime.strptime(s, fmt): a naive datetime, ValueError (ok = FALSE) when
\* the string is not of the format.  The literal Z of a format sets no tzinfo.
Strptime(s, fmt) ==
    LET forms == WrittenIn[FormatIndex(fmt)]
    IN  IF \E t \in Times : s = forms[t]
        THEN [ok |-> TRUE, value |-> Midnight(CHOOSE t \in Times : s = forms[t])]
        ELSE [ok |-> FALSE, value |-> NoneDate]

\* dateutil.parser.parse(s): reads an offset or Z as tzinfo; ParserError
\* (ok = FALSE) when the string is no date.
DateutilParse(s) ==
    IF \E t \in Times : s = OffsetForms[t]
    THEN [ok |-> TRUE,
          value |-> [kind |-> "aware", t |-> CHOOSE t \in Times : s = OffsetForms[t]]]
    ELSE IF \E i \in 1..Len(Formats) : Strptime(s, Formats[i]).ok
         THEN LET i == CHOOSE j \in 1..Len(Formats) : Strptime(s, Formats[j]).ok
              IN  [ok |-> TRUE,
                   value |-> [kind |-> IF Formats[i] \in {"%Y-%m-%dT%H:%M:%SZ", "%Y-%m-%dT%H:%M:%S.%fZ"}
                                       THEN "aware" ELSE "naive",
                              t |-> Strptime(s, Formats[i]).value.t]]
         ELSE [ok |-> FALSE, value |-> NoneDate]

\* Mutation: no outer except clause, the ParserError of dateutil gets out.
ParseAwsDatetimeNoExcept(s, dateutil) ==
    IF ~Truthy(GetText(s))
    THEN [raised |-> FALSE, value |-> NoneDate]
    ELSE IF \E i \in 1..Len(Formats) : Strptime(s, Formats[i]).ok
         THEN LET first == CHOOSE i \in 1..Len(Formats) :
                               /\ Strptime(s, Formats[i]).ok
                               /\ \A j \in 1..(i - 1) : ~Strptime(s, Formats[j]).ok
              IN  [raised |-> FALSE, value |-> Strptime(s, Formats[first]).value]
         ELSE IF dateutil
              THEN IF DateutilParse(s).ok
                   THEN [raised |-> FALSE, value |-> DateutilParse(s).value]
                   ELSE [raised |-> TRUE, value |-> NoneDate]
              ELSE [raised |-> FALSE, value |-> NoneDate]

\* _parse_aws_datetime(s) with its exit: raised tells whether an exception
\* leaves the function.  dateutil tells whether the import of dateutil works.
ParseAwsDatetimeResult(s, dateutil) ==
    IF ~Truthy(GetText(s))
    THEN [raised |-> FALSE, value |-> NoneDate]
    ELSE IF \E i \in 1..Len(Formats) : Strptime(s, Formats[i]).ok
         THEN LET first == CHOOSE i \in 1..Len(Formats) :
                               /\ Strptime(s, Formats[i]).ok
                               /\ \A j \in 1..(i - 1) : ~Strptime(s, Formats[j]).ok
              IN  [raised |-> FALSE, value |-> Strptime(s, Formats[first]).value]
         ELSE IF dateutil
              THEN IF DateutilParse(s).ok
                   THEN [raised |-> FALSE, value |-> DateutilParse(s).value]
                   ELSE [raised |-> FALSE, value |-> NoneDate]
              ELSE [raised |-> FALSE, value |-> NoneDate]

parse_aws_datetime(s, dateutil) == ParseAwsDatetimeResult(s, dateutil).value

\* ------------------------------------------------------------------ normalize_aws_calendar_to_ics
\* The standard form: one canonical event per record of 'events'.
NormalizeEvent(event, uuid, dateutil) ==
    [uid |-> IF event.id = Absent THEN uuid ELSE event.id,
     summary |-> IF event.summary = Absent THEN "AWS Change Calendar Event" ELSE event.summary,
     dtstart |-> parse_aws_datetime(event.start, dateutil),
     dtend |-> parse_aws_datetime(event.end, dateutil),
     description |-> GetTextDefault(event.description),
     categories |-> "AWS-Change-Calendar"]

\* The old form: one canonical event per period of the schedule.
NormalizePeriod(period, uuid, dateutil) ==
    [uid |-> uuid,
     summary |-> "AWS Change Calendar: Unknown",
     dtstart |-> parse_aws_datetime(period.start, dateutil),
     dtend |-> parse_aws_datetime(period.end, dateutil),
     description |-> "AWS Change Calendar period: ",
     categories |-> "AWS-Change-Calendar"]

\* if start_time and end_time
PeriodUsed(period) == Truthy(GetText(period.start)) /\ Truthy(GetText(period.end))

\* The events of the two forms; uuids[i] is what uuid4 gives for record i.
RECURSIVE NormalizedEvents(_, _, _, _)
NormalizedEvents(events, uuids, dateutil, i) ==
    IF i > Len(events) THEN << >>
    ELSE <<NormalizeEvent(events[i], uuids[i], dateutil)>>
         \o NormalizedEvents(events, uuids, dateutil, i + 1)
RECURSIVE NormalizedPeriods(_, _, _, _)
NormalizedPeriods(periods, uuids, dateutil, i) ==
    IF i > Len(periods) THEN << >>
    ELSE (IF PeriodUsed(periods[i])
          THEN <<NormalizePeriod(periods[i], uuids[i], dateutil)>> ELSE << >>)
         \o NormalizedPeriods(periods, uuids, dateutil, i + 1)

\* An exception leaves one of the calls of _parse_aws_datetime.
ParseRaises(data, dateutil) ==
    \/ \E i \in 1..Len(data.events) :
          \/ ParseAwsDatetimeResult(data.events[i].start, dateutil).raised
          \/ ParseAwsDatetimeResult(data.events[i].end, dateutil).raised
    \/ /\ data.events = << >>
       /\ \E i \in 1..Len(data.periods) :
             /\ PeriodUsed(data.periods[i])
             /\ \/ ParseAwsDatetimeResult(data.periods[i].start, dateutil).raised
                \/ ParseAwsDatetimeResult(data.periods[i].end, dateutil).raised

\* normalize_aws_calendar_to_ics(aws_calendar_data): the list it returns, or
\* the ICSAnalysisError it raises.
normalize_aws_calendar_to_ics(data, uuids, dateutil) ==
    IF ~data.json \/ ParseRaises(data, dateutil)
    THEN [raised |-> "ICSAnalysisError", events |-> << >>]
    ELSE [raised |-> "none",
          events |-> IF data.events # << >>
                     THEN NormalizedEvents(data.events, uuids, dateutil, 1)
                     ELSE NormalizedPeriods(data.periods, uuids, dateutil, 1)]

\* ------------------------------------------------------------------ generate_event_semantic_diff
NoDiffResult ==
    [raised |-> "none", changes |-> NoChanges, statistics |-> NoStatistics,
     sorted_changes |-> << >>]

\* What generate_event_semantic_diff makes of the events of its two files.
SemanticDiff(ev1, ev2) ==
    IF UidMissing(ev1) \/ UidMissing(ev2)
    THEN [NoDiffResult EXCEPT !.raised = "ICSAnalysisError"]
    ELSE LET ch == detect_event_changes_detailed(ev1, ev2)
         IN  IF SortRaises(AllChanges(ch))
             THEN [NoDiffResult EXCEPT !.raised = "ICSAnalysisError"]
             ELSE [raised |-> "none", changes |-> ch,
                   statistics |-> Statistics(ev1, ev2, ch),
                   sorted_changes |-> sort_changes_chronologically(ch)]

\* ------------------------------------------------------------------ compare_event_properties
\* An entry stands for the string "PROP: value1 -> value2" of the returned list.
\* str(value) of a date value that is not a datetime is 'None'.
DateText(v) == IF IsDateTime(v) THEN DateStr(v) ELSE "None"

PropertyTextChange(prop, value1, value2) ==
    IF PyStr(value1) # PyStr(value2)
    THEN <<[property |-> prop, old_value |-> PyStr(value1), new_value |-> PyStr(value2)]>>
    ELSE << >>

PropertyDateChange(prop, value1, value2) ==
    IF IsDateTime(value1) /\ IsDateTime(value2)
    THEN IF value1 # value2
         THEN <<[property |-> prop, old_value |-> Isoformat(value1),
                 new_value |-> Isoformat(value2)]>>
         ELSE << >>
    ELSE IF DateText(value1) # DateText(value2)
         THEN <<[property |-> prop, old_value |-> DateText(value1),
                 new_value |-> DateText(value2)]>>
         ELSE << >>

compare_event_properties(event1, event2) ==
    PropertyTextChange("summary", GetText(event1.summary), GetText(event2.summary))
    \o PropertyTextChange("description", GetText(event1.description), GetText(event2.description))
    \o PropertyTextChange("categories", GetText(event1.categories), GetText(event2.categories))
    \o PropertyDateChange("dtstart", GetDate(event1.dtstart), GetDate(event2.dtstart))
    \o PropertyDateChange("dtend", GetDate(event1.dtend), GetDate(event2.dtend))

\* ------------------------------------------------------------------ detect_event_changes
\* event['uid'], and event['dtstart'] of an event without uid, raise KeyError
\* when the key is missing.
KeyMissing(events) ==
    \E i \in 1..Len(events) :
        \/ events[i].uid = Absent
        \/ ~Truthy(events[i].uid) /\ events[i].dtstart = AbsentDate

\* set(events_dict.keys())
UidSet(events) == {events[i].uid : i \in {j \in 1..Len(events) : Truthy(events[j].uid)}}

\* The events without uid and their dict by start: key isoformat() or ''.
EventsNoUid(events) == SelectSeq(events, LAMBDA e : ~Truthy(e.uid))
DtstartKey(e) == IF IsDateTime(e.dtstart) THEN Isoformat(e.dtstart) ELSE ""
DtstartSet(events) == {DtstartKey(EventsNoUid(events)[i]) : i \in 1..Len(EventsNoUid(events))}
EventByDtstart(events, key) ==
    LET no_uid == EventsNoUid(events)
        last == CHOOSE i \in 1..Len(no_uid) :
                    /\ DtstartKey(no_uid[i]) = key
                    /\ \A j \in (i + 1)..Len(no_uid) : DtstartKey(no_uid[j]) # key
    IN  no_uid[last]

\* The orders a set of strings can be iterated in, and a set in such an order.
Orders(S) == {o \in [1..Cardinality(S) -> S] : \A i, j \in 1..Cardinality(S) : i # j => o[i] # o[j]}
InOrder(S, order) == SelectSeq(order, LAMBDA x : x \in S)

\* The records of the loops over added and deleted keys, the keys being uids
\* (by_uid) or starts.
AddedItems(keys, events, by_uid) ==
    [i \in 1..Len(keys) |-> [event |-> IF by_uid THEN EventByUid(events, keys[i])
                                 ELSE EventByDtstart(events, keys[i]), change_type |-> "added"]]

DeletedItems(keys, events, by_uid) ==
    [i \in 1..Len(keys) |-> [event |-> IF by_uid THEN EventByUid(events, keys[i])
                                 ELSE EventByDtstart(events, keys[i]), change_type |-> "deleted"]]

\* The loop over common_uids: modified when compare_event_properties returns
\* a non-empty list, unchanged otherwise.
RECURSIVE ModifiedItems(_, _, _)
ModifiedItems(keys, ev1, ev2) ==
    IF keys = << >> THEN << >>
    ELSE LET e1 == EventByUid(ev1, Head(keys))
             e2 == EventByUid(ev2, Head(keys))
         IN  (IF compare_event_properties(e1, e2) # << >>
              THEN <<[event1 |-> e1, event2 |-> e2,
                      property_changes |-> compare_event_properties(e1, e2),
                      change_type |-> "modified"]>>
              ELSE << >>)
             \o ModifiedItems(Tail(keys), ev1, ev2)
RECURSIVE UnchangedItems(_, _, _)
UnchangedItems(keys, ev1, ev2) ==
    IF keys = << >> THEN << >>
    ELSE LET e1 == EventByUid(ev1, Head(keys))
             e2 == EventByUid(ev2, Head(keys))
         IN  (IF compare_event_properties(e1, e2) = << >>
              THEN <<[event |-> e1, change_type |-> "unchanged"]>>
              ELSE << >>)
             \o UnchangedItems(Tail(keys), ev1, ev2)

\* _get_event_sort_key: the start of 'event' or of 'event2'.
ItemEvent(item) == IF item.change_type = "modified" THEN item.event2 ELSE item.event
RECURSIVE ItemsWithKey(_)
ItemsWithKey(items) ==
    IF items = << >> THEN << >>
    ELSE <<[sort_date |-> GetDate(ItemEvent(Head(items)).dtstart), item |-> Head(items)]>>
         \o ItemsWithKey(Tail(items))
\* list.sort(key=...) of one of the lists: the TypeError of a naive against an
\* aware key, or the sorted list.
ItemSortRaises(items) == SortRaises(ItemsWithKey(items))
SortedItems(items) ==
    LET sorted == StableSort(ItemsWithKey(items))
    IN  [i \in 1..Len(sorted) |-> sorted[i].item]

NoSimpleChanges ==
    [raised |-> "none", added |-> << >>, deleted |-> << >>, modified |-> << >>,
     unchanged |-> << >>]

\* detect_event_changes(events1, events2); uid_order and dtstart_order are the
\* orders in which the sets of uids and of start keys are iterated.
detect_event_changes(ev1, ev2, uid_order, dtstart_order) ==
    IF KeyMissing(ev1) \/ KeyMissing(ev2)
    THEN [NoSimpleChanges EXCEPT !.raised = "ICSAnalysisError"]
    ELSE LET added == AddedItems(InOrder(UidSet(ev2) \ UidSet(ev1), uid_order), ev2, TRUE)
                      \o AddedItems(InOrder((DtstartSet(ev2) \ DtstartSet(ev1)) \ {""},
                                            dtstart_order), ev2, FALSE)
             deleted == DeletedItems(InOrder(UidSet(ev1) \ UidSet(ev2), uid_order), ev1, TRUE)
                        \o DeletedItems(InOrder((DtstartSet(ev1) \ DtstartSet(ev2)) \ {""},
                                                dtstart_order), ev1, FALSE)
             common == InOrder(UidSet(ev1) \cap UidSet(ev2), uid_order)
             modified == ModifiedItems(common, ev1, ev2)
         IN  IF ItemSortRaises(added) \/ ItemSortRaises(deleted) \/ ItemSortRaises(modified)
             THEN [NoSimpleChanges EXCEPT !.raised = "ICSAnalysisError"]
             ELSE [raised |-> "none",
                   added |-> SortedItems(added),
                   deleted |-> SortedItems(deleted),
                   modified |-> SortedItems(modified),
                   unchanged |-> UnchangedItems(common, ev1, ev2)]

\* ------------------------------------------------------------------ compare_with_aws_change_calendar
AwsStatistics(local_events, aws_events, ch) ==
    [local_only |-> Len(ch.added),
     aws_only |-> Len(ch.deleted),
     different |-> Len(ch.modified),
     moved |-> Len(ch.moved),
     identical |-> Len(local_events) + Len(aws_events) - Len(ch.added) - Len(ch.deleted)
                   - Len(ch.modified) - Len(ch.moved)]

\* A recommendation is its sentence (named here by what it says) and the
\* count the sentence carries, 0 for a sentence without count.
Recommend(cond, message, count) ==
    IF cond THEN <<[message |-> message, count |-> count]>> ELSE << >>

\* _generate_aws_recommendations(changes, statistics)
generate_aws_recommendations(ch, st) ==
    Recommend(st.local_only > 0, "add local events to AWS Change Calendar", st.local_only)
    \o Recommend(st.aws_only > 0, "AWS events missing in local file", st.aws_only)
    \o Recommend(st.different > 0, "events differ", st.different)
    \o Recommend(st.moved > 0, "events moved", st.moved)
    \o (IF st.local_only = 0 /\ st.aws_only = 0 /\ st.different = 0
        THEN Recommend(TRUE, "local file and AWS Change Calendar are in sync", 0)
        ELSE Recommend(TRUE, "check state after update of AWS Change Calendar", 0)
             \o Recommend(TRUE, "next comparison in one month", 0))

\* ------------------------------------------------------------------ state
VARIABLES
    pc,            \* position of the caller
    event1,        \* the pair given to the classifier and the property differ
    event2,
    change_type,   \* result of classify_event_changes
    warned,        \* classify_event_changes logged a warning
    prop_changes,  \* result of _get_detailed_property_changes
    events1,       \* the before list given to detect_event_changes_detailed
    events2,       \* the after list
    changes,       \* result of detect_event_changes_detailed
    pairs,         \* the pairs detect_event_changes_detailed gave to the classifier
    statistics,    \* statistics of generate_event_semantic_diff
    sorted_changes,\* result of _sort_changes_chronologically
    raised,        \* the exception the caller got, "none" when it got a result
    aws_calendar_data,  \* the AWS calendar document given to normalize_aws_calendar_to_ics
    dateutil_installed, \* the import of dateutil works
    conversions,   \* results of the calls of normalize_aws_calendar_to_ics so far
    files,         \* per thread: the events of the two files it compares
    thread_pc,     \* per thread: position in generate_event_semantic_diff
    analysis_result,    \* self.analysis_result of the analyzer the threads share
    analysis1,     \* per thread: the local analysis1['events']
    analysis2,     \* per thread: the local analysis2['events']
    diff_result,   \* per thread: result of generate_event_semantic_diff
    simple_changes,     \* result of detect_event_changes
    aws_comparison,     \* result of compare_with_aws_change_calendar
    reverse_changes     \* result of detect_event_changes_detailed(events2, events1)

pairVars == <<event1, event2, change_type, warned, prop_changes>>
listVars == <<events1, events2, changes, pairs, statistics, sorted_changes, raised>>
awsVars == <<aws_calendar_data, dateutil_installed, conversions>>
threadVars == <<files, thread_pc, analysis_result, analysis1, analysis2, diff_result>>
compareVars == <<simple_changes, aws_comparison, reverse_changes>>
vars == <<pc, event1, event2, change_type, warned, prop_changes,
          events1, events2, changes, pairs, statistics, sorted_changes, raised,
          aws_calendar_data, dateutil_installed, conversions,
          files, thread_pc, analysis_result, analysis1, analysis2, diff_result,
          simple_changes, aws_comparison, reverse_changes>>

Threads == {"t1", "t2"}
NotJson == [json |-> FALSE, events |-> << >>, periods |-> << >>]

\* No other comparison made.
NoAwsComparison ==
    [raised |-> "none",
     statistics |-> [local_only |-> 0, aws_only |-> 0, different |-> 0, moved |-> 0,
                     identical |-> 0],
     differences |-> [local_only |-> << >>, aws_only |-> << >>, different |-> << >>,
                      moved |-> << >>],
     recommendations |-> << >>]
NothingCompared ==
    /\ simple_changes = NoSimpleChanges
    /\ aws_comparison = NoAwsComparison
    /\ reverse_changes = NoChanges

\* Nothing converted, no thread started.
NothingConverted ==
    /\ aws_calendar_data = NotJson
    /\ dateutil_installed = FALSE
    /\ conversions = << >>
NoThreads ==
    /\ files = [t \in Threads |-> [file1 |-> << >>, file2 |-> << >>]]
    /\ thread_pc = [t \in Threads |-> "idle"]
    /\ analysis_result = << >>
    /\ analysis1 = [t \in Threads |-> << >>]
    /\ analysis2 = [t \in Threads |-> << >>]
    /\ diff_result = [t \in Threads |-> NoDiffResult]

\* ------------------------------------------------------------------ pair specification
PairEvents ==
    [uid : {"u1"}, summary : TextValues, description : {Absent, "", "d"},
     categories : {NoneV, "c"}, dtstart : DateValues, dtend : DateValues]

InitPair ==
    /\ pc = "pair"
    /\ event1 \in PairEvents
    /\ event2 \in PairEvents
    /\ change_type = "none"
    /\ warned = FALSE
    /\ prop_changes = << >>
    /\ events1 = << >>
    /\ events2 = << >>
    /\ changes = NoChanges
    /\ pairs = << >>
    /\ statistics = NoStatistics
    /\ sorted_changes = << >>
    /\ raised = "none"
    /\ NothingConverted
    /\ NoThreads
    /\ NothingCompared

ClassifyEventChanges ==
    /\ pc = "pair"
    /\ change_type' = classify_event_changes(event1, event2)
    /\ warned' = ClassifyResult(event1, event2).raised
    /\ pc' = "classified"
    /\ UNCHANGED <<event1, event2, prop_changes>>
    /\ UNCHANGED listVars
    /\ UNCHANGED <<awsVars, threadVars, compareVars>>

GetDetailedPropertyChanges ==
    /\ pc = "classified"
    /\ prop_changes' = get_detailed_property_changes(event1, event2)
    /\ pc' = "diffed"
    /\ UNCHANGED <<event1, event2, change_type, warned>>
    /\ UNCHANGED listVars
    /\ UNCHANGED <<awsVars, threadVars, compareVars>>

NextPair == ClassifyEventChanges \/ GetDetailedPropertyChanges

SpecPair == InitPair /\ [][NextPair]_vars

\* ------------------------------------------------------------------ list specification
NoEvent ==
    [uid |-> Absent, summary |-> Absent, description |-> Absent, categories |-> Absent,
     dtstart |-> AbsentDate, dtend |-> AbsentDate]

ListStarts == {NoneDate, [kind |-> "naive", t |-> 0], [kind |-> "naive", t |-> 1],
               [kind |-> "aware", t |-> 0]}

\* Events as the parser and the tests build them (with and without uid), and
\* three incomplete records.
ListEvents ==
    [uid : {"u1", "u2"}, summary : {"a", "b"}, description : {""},
     categories : {""}, dtstart : ListStarts, dtend : {[kind |-> "naive", t |-> 1]}]
    \cup [uid : {""}, summary : {"a"}, description : {""}, categories : {""},
          dtstart : {[kind |-> "naive", t |-> 0], [kind |-> "naive", t |-> 1]},
          dtend : {[kind |-> "naive", t |-> 1]}]
    \cup {[NoEvent EXCEPT !.summary = "a"],
          [NoEvent EXCEPT !.uid = NoneV, !.summary = "a"],
          [NoEvent EXCEPT !.uid = "u1", !.summary = "a"]}

Init ==
    /\ pc = "start"
    /\ \E n1 \in 0..MaxEvents : \E n2 \in 0..(MaxEvents - n1) :
          /\ events1 \in [1..n1 -> ListEvents]
          /\ events2 \in [1..n2 -> ListEvents]
    /\ changes = NoChanges
    /\ pairs = << >>
    /\ statistics = NoStatistics
    /\ sorted_changes = << >>
    /\ raised = "none"
    /\ event1 = NoEvent
    /\ event2 = NoEvent
    /\ change_type = "none"
    /\ warned = FALSE
    /\ prop_changes = << >>
    /\ NothingConverted
    /\ NoThreads
    /\ NothingCompared

\* detect_event_changes_detailed(events1, events2)
DetectEventChangesDetailed ==
    /\ pc = "start"
    /\ IF UidMissing(events1) \/ UidMissing(events2)
       THEN /\ raised' = "ICSAnalysisError"
            /\ pc' = "detect_failed"
            /\ UNCHANGED <<changes, pairs>>
       ELSE /\ changes' = detect_event_changes_detailed(events1, events2)
            /\ pairs' = PairsOf(UidKeys(events2), events1, events2)
            /\ pc' = "detected"
            /\ UNCHANGED raised
    /\ UNCHANGED <<events1, events2, statistics, sorted_changes>>
    /\ UNCHANGED pairVars
    /\ UNCHANGED <<awsVars, threadVars, compareVars>>

\* Mutation: the sorter sorts every list of types in place as well.
SummarizeAndSortInPlace ==
    /\ pc = "detected"
    /\ statistics' = Statistics(events1, events2, changes)
    /\ IF SortRaises(AllChanges(changes))
       THEN /\ raised' = "ICSAnalysisError"
            /\ pc' = "sort_failed"
            /\ UNCHANGED <<sorted_changes, changes>>
       ELSE /\ sorted_changes' = sort_changes_chronologically(changes)
            /\ changes' = [t \in DOMAIN changes |->
                              [i \in 1..Len(changes[t]) |->
                                  StableSort(EntriesOf(t, changes[t]))[i].change_data]]
            /\ pc' = "done"
            /\ UNCHANGED raised
    /\ UNCHANGED <<events1, events2, pairs>>
    /\ UNCHANGED pairVars
    /\ UNCHANGED <<awsVars, threadVars, compareVars>>

\* The rest of generate_event_semantic_diff: the statistics and the sort.
SummarizeAndSort ==
    /\ pc = "detected"
    /\ statistics' = Statistics(events1, events2, changes)
    /\ IF SortRaises(AllChanges(changes))
       THEN /\ raised' = "ICSAnalysisError"
            /\ pc' = "sort_failed"
            /\ UNCHANGED sorted_changes
       ELSE /\ sorted_changes' = sort_changes_chronologically(changes)
            /\ pc' = "done"
            /\ UNCHANGED raised
    /\ UNCHANGED <<events1, events2, changes, pairs>>
    /\ UNCHANGED pairVars
    /\ UNCHANGED <<awsVars, threadVars, compareVars>>

Next == DetectEventChangesDetailed \/ SummarizeAndSort

Spec == Init /\ [][Next]_vars

\* ------------------------------------------------------------------ specification of matched lists
\* Two lists of ListLen events each over two uids, so that both uids can be
\* matched: events of one start with two summaries, of a later start, and of
\* a timezone-aware start whose duration cannot be computed.
MatchedEvents ==
    [uid : {"u1", "u2"}, summary : {"a", "b"}, description : {""}, categories : {""},
     dtstart : {[kind |-> "naive", t |-> 0]}, dtend : {[kind |-> "naive", t |-> 1]}]
    \cup [uid : {"u1", "u2"}, summary : {"a"}, description : {""}, categories : {""},
          dtstart : {[kind |-> "naive", t |-> 1], [kind |-> "aware", t |-> 0]},
          dtend : {[kind |-> "naive", t |-> 1]}]

InitMatched ==
    /\ pc = "start"
    /\ events1 \in [1..ListLen -> MatchedEvents]
    /\ events2 \in [1..ListLen -> MatchedEvents]
    /\ changes = NoChanges
    /\ pairs = << >>
    /\ statistics = NoStatistics
    /\ sorted_changes = << >>
    /\ raised = "none"
    /\ event1 = NoEvent
    /\ event2 = NoEvent
    /\ change_type = "none"
    /\ warned = FALSE
    /\ prop_changes = << >>
    /\ NothingConverted
    /\ NoThreads
    /\ NothingCompared

SpecMatched == InitMatched /\ [][Next]_vars

\* ------------------------------------------------------------------ specification of the two comparisons
\* The strings a set of them can hold in the lists.
UidsOf(ev1, ev2) == UidSet(ev1) \cup UidSet(ev2)
DtstartsOf(ev1, ev2) == DtstartSet(ev1) \cup DtstartSet(ev2)

\* detect_event_changes(events1, events2), on the lists given to
\* detect_event_changes_detailed before.
DetectEventChanges ==
    /\ pc = "detected"
    /\ \E uid_order \in Orders(UidsOf(events1, events2)) :
          \E dtstart_order \in Orders(DtstartsOf(events1, events2)) :
              simple_changes' = detect_event_changes(events1, events2, uid_order, dtstart_order)
    /\ pc' = IF simple_changes'.raised = "none" THEN "compared" ELSE "compare_failed"
    /\ UNCHANGED <<aws_comparison, reverse_changes>>
    /\ UNCHANGED <<pairVars, listVars, awsVars, threadVars>>

NextBoth == DetectEventChangesDetailed \/ DetectEventChanges

SpecBoth == Init /\ [][NextBoth]_vars

\* ------------------------------------------------------------------ specification of the two directions
\* detect_event_changes_detailed(events2, events1) after
\* detect_event_changes_detailed(events1, events2).
DetectEventChangesReversed ==
    /\ pc \in {"detected", "detect_failed"}
    /\ IF UidMissing(events2) \/ UidMissing(events1)
       THEN /\ pc' = "reverse_failed"
            /\ UNCHANGED reverse_changes
       ELSE /\ reverse_changes' = detect_event_changes_detailed(events2, events1)
            /\ pc' = "reversed"
    /\ UNCHANGED <<simple_changes, aws_comparison>>
    /\ UNCHANGED <<pairVars, listVars, awsVars, threadVars>>

NextSymmetry == DetectEventChangesDetailed \/ DetectEventChangesReversed

SpecSymmetry == Init /\ [][NextSymmetry]_vars

\* ------------------------------------------------------------------ specification of the AWS comparison
\* compare_with_aws_change_calendar from the point where the events of the
\* local file (events1) and of the AWS calendar (events2) are there.
CompareWithAwsChangeCalendar ==
    /\ pc = "start"
    /\ IF UidMissing(events1) \/ UidMissing(events2)
       THEN /\ aws_comparison' = [NoAwsComparison EXCEPT !.raised = "ICSAnalysisError"]
            /\ pc' = "aws_compare_failed"
            /\ UNCHANGED changes
       ELSE LET ch == detect_event_changes_detailed(events1, events2)
                st == AwsStatistics(events1, events2, ch)
            IN  /\ changes' = ch
                /\ aws_comparison' =
                      [raised |-> "none",
                       statistics |-> st,
                       differences |-> [local_only |-> ch.added, aws_only |-> ch.deleted,
                                        different |-> ch.modified, moved |-> ch.moved],
                       recommendations |-> generate_aws_recommendations(ch, st)]
                /\ pc' = "aws_compared"
    /\ UNCHANGED <<events1, events2, pairs, statistics, sorted_changes, raised>>
    /\ UNCHANGED <<simple_changes, reverse_changes>>
    /\ UNCHANGED <<pairVars, awsVars, threadVars>>

NextAwsCompare == CompareWithAwsChangeCalendar

SpecAwsCompare == Init /\ [][NextAwsCompare]_vars

\* ------------------------------------------------------------------ AWS calendar specification
\* No pair and no lists are compared.
NoComparison ==
    /\ event1 = NoEvent
    /\ event2 = NoEvent
    /\ change_type = "none"
    /\ warned = FALSE
    /\ prop_changes = << >>
    /\ events1 = << >>
    /\ events2 = << >>
    /\ changes = NoChanges
    /\ pairs = << >>
    /\ statistics = NoStatistics
    /\ sorted_changes = << >>
    /\ raised = "none"

\* Values of 'start' and 'end' in a document: missing, null, '', a date in
\* one of the formats or with an offset, and a text that is no date.
AwsDateStrings ==
    {Absent, NoneV, "", "not a date"}
    \cup {WrittenIn[i][t] : t \in Times, i \in 1..Len(Formats)}
    \cup {OffsetForms[t] : t \in Times}

\* Records of 'events': every form of id, every form of start, and an end
\* that is no date.
AwsRecords ==
    [id : {Absent, NoneV, "", "e1"}, summary : {"s"}, description : {"d"},
     start : {WrittenIn[1][0]}, end : {WrittenIn[1][0]}]
    \cup [id : {"e1"}, summary : {Absent}, description : {Absent},
          start : AwsDateStrings, end : {WrittenIn[1][0]}]
    \cup [id : {"e1"}, summary : {Absent}, description : {Absent},
          start : {WrittenIn[1][0], "not a date"}, end : {"not a date"}]

\* Periods of 'schedule'.
AwsPeriods ==
    [start : {Absent, WrittenIn[1][0], "not a date"},
     end : {"", WrittenIn[1][0], "not a date"}]

\* f"aws-change-calendar-{uuid.uuid4()}": two of the values uuid4 can give.
Uuids == {"aws-change-calendar-uuid-a", "aws-change-calendar-uuid-b"}

SeqsUpTo(S, n) == UNION {[1..k -> S] : k \in 0..n}

InitAws ==
    /\ pc = "aws_source"
    /\ aws_calendar_data \in
          {NotJson}
          \cup {[json |-> TRUE, events |-> es, periods |-> << >>] :
                   es \in SeqsUpTo(AwsRecords, MaxRecords)}
          \cup {[json |-> TRUE, events |-> << >>, periods |-> ps] :
                   ps \in SeqsUpTo(AwsPeriods, MaxRecords)}
    /\ dateutil_installed \in BOOLEAN
    /\ conversions = << >>
    /\ NoComparison
    /\ NoThreads
    /\ NothingCompared

\* normalize_aws_calendar_to_ics(aws_calendar_data), called twice on the same
\* document.
NormalizeAwsCalendarToIcs ==
    /\ pc \in {"aws_source", "aws_once"}
    /\ \E uuids \in [1..MaxRecords -> Uuids] :
          conversions' = Append(conversions,
              normalize_aws_calendar_to_ics(aws_calendar_data, uuids, dateutil_installed))
    /\ pc' = IF pc = "aws_source" THEN "aws_once" ELSE "aws_twice"
    /\ UNCHANGED <<aws_calendar_data, dateutil_installed>>
    /\ UNCHANGED <<pairVars, listVars, threadVars, compareVars>>

NextAws == NormalizeAwsCalendarToIcs

SpecAws == InitAws /\ [][NextAws]_vars

\* ------------------------------------------------------------------ thread specification
\* Events as extract_events builds them.
ThreadEvents ==
    [uid : {"u1", "u2"}, summary : {"a", "b"}, description : {""}, categories : {""},
     dtstart : {[kind |-> "naive", t |-> 0]}, dtend : {[kind |-> "naive", t |-> 1]}]
ThreadFiles == {<< >>} \cup {<<e>> : e \in ThreadEvents}

InitThreads ==
    /\ pc = "threads"
    /\ files \in [Threads -> [file1 : ThreadFiles, file2 : ThreadFiles]]
    /\ thread_pc = [t \in Threads |-> "parse1"]
    /\ analysis_result = << >>
    /\ analysis1 = [t \in Threads |-> << >>]
    /\ analysis2 = [t \in Threads |-> << >>]
    /\ diff_result = [t \in Threads |-> NoDiffResult]
    /\ NoComparison
    /\ NothingConverted
    /\ NothingCompared

\* parse_ics_file up to the assignment of self.analysis_result
ParseIcsFileStore(t) ==
    /\ thread_pc[t] \in {"parse1", "parse2"}
    /\ analysis_result' = IF thread_pc[t] = "parse1" THEN files[t].file1 ELSE files[t].file2
    /\ thread_pc' = [thread_pc EXCEPT ![t] = IF thread_pc[t] = "parse1" THEN "return1" ELSE "return2"]
    /\ UNCHANGED <<files, analysis1, analysis2, diff_result>>
    /\ UNCHANGED <<pc, pairVars, listVars, awsVars, compareVars>>

\* return self.analysis_result, and the caller's analysis['events']
ParseIcsFileReturn(t) ==
    /\ thread_pc[t] \in {"return1", "return2"}
    /\ IF thread_pc[t] = "return1"
       THEN /\ analysis1' = [analysis1 EXCEPT ![t] = analysis_result]
            /\ UNCHANGED analysis2
       ELSE /\ analysis2' = [analysis2 EXCEPT ![t] = analysis_result]
            /\ UNCHANGED analysis1
    /\ thread_pc' = [thread_pc EXCEPT ![t] = IF thread_pc[t] = "return1" THEN "parse2" ELSE "diff"]
    /\ UNCHANGED <<files, analysis_result, diff_result>>
    /\ UNCHANGED <<pc, pairVars, listVars, awsVars, compareVars>>

\* The rest of generate_event_semantic_diff, on the thread's own locals.
GenerateEventSemanticDiff(t) ==
    /\ thread_pc[t] = "diff"
    /\ diff_result' = [diff_result EXCEPT ![t] = SemanticDiff(analysis1[t], analysis2[t])]
    /\ thread_pc' = [thread_pc EXCEPT ![t] = "returned"]
    /\ UNCHANGED <<files, analysis_result, analysis1, analysis2>>
    /\ UNCHANGED <<pc, pairVars, listVars, awsVars, compareVars>>

NextThreads ==
    \E t \in Threads :
        \/ ParseIcsFileStore(t)
        \/ ParseIcsFileReturn(t)
        \/ GenerateEventSemanticDiff(t)

SpecThreads == InitThreads /\ [][NextThreads]_vars

\* ------------------------------------------------------------------ vocabulary of the properties
\* A date field holds a date-time; a missing key and None are both "no date".
Defined(v) == v.kind \in {"naive", "aware"}
SameDate(a, b) == IF Defined(a) /\ Defined(b) THEN a = b ELSE Defined(a) = Defined(b)
DatesDiffer(e1, e2) == ~SameDate(e1.dtstart, e2.dtstart) \/ ~SameDate(e1.dtend, e2.dtend)
AllDefined(e1, e2) ==
    Defined(e1.dtstart) /\ Defined(e1.dtend) /\ Defined(e2.dtstart) /\ Defined(e2.dtend)
Duration(e) == e.dtend.t - e.dtstart.t
\* end - start can be computed: both naive or both aware.
Computable(e) == e.dtstart.kind = e.dtend.kind

\* A missing or None text counts as the empty string.
Coerce(v) == IF v \in {Absent, NoneV} THEN "" ELSE v
TextsDiffer(e1, e2) ==
    \E p \in {"summary", "description", "categories"} : Coerce(e1[p]) # Coerce(e2[p])

Classified == pc \in {"classified", "diffed"}
ClassifierAnswers == {"modified", "moved", "duration_changed", "unchanged"}

\* ------------------------------------------------------------------ C4
\* C4 (as stated): a pair whose start or end differ is duration_changed exactly
\* when all four dates are defined and the two durations differ, and moved in
\* every other case; never modified or unchanged.
C4_DateRule ==
    (Classified /\ DatesDiffer(event1, event2)) =>
        change_type = IF AllDefined(event1, event2) /\ Duration(event1) # Duration(event2)
                      THEN "duration_changed" ELSE "moved"

\* C4 (amended): as above when both durations can be computed; a pair with all
\* four dates defined in which an event mixes a naive and an aware date-time is
\* modified (the subtraction fails and the except branch answers); a pair with
\* a date missing is moved.  It is never unchanged, whatever the texts are.
C4_DateRuleAmended ==
    (Classified /\ DatesDiffer(event1, event2)) =>
        change_type =
            IF ~AllDefined(event1, event2) THEN "moved"
            ELSE IF ~Computable(event1) \/ ~Computable(event2) THEN "modified"
            ELSE IF Duration(event1) # Duration(event2) THEN "duration_changed"
            ELSE "moved"

C4_Witness ==
    /\ pc = "classified"
    /\ change_type = "duration_changed"
    /\ TextsDiffer(event1, event2)

\* ------------------------------------------------------------------ C5
\* C5: a pair with equal start and equal end is modified iff summary,
\* description or categories differ once a missing or None value counts as the
\* empty string, and unchanged otherwise.
C5_TextRule ==
    (Classified /\ ~DatesDiffer(event1, event2)) =>
        change_type = IF TextsDiffer(event1, event2) THEN "modified" ELSE "unchanged"

\* ------------------------------------------------------------------ C6
\* C6: for every pair the classifier returns, and what it returns is one of
\* modified, moved, duration_changed, unchanged.
C6_Totality ==
    /\ pc = "pair" => ENABLED ClassifyEventChanges
    /\ Classified => change_type \in ClassifierAnswers

C6_Witness ==
    /\ pc = "classified"
    /\ warned
    /\ change_type = "modified"

\* ------------------------------------------------------------------ C10
PropOrder == <<"summary", "description", "categories", "dtstart", "dtend">>
IsDateProp(p) == p \in {"dtstart", "dtend"}
PropDiffers(e1, e2, p) ==
    IF IsDateProp(p) THEN ~SameDate(e1[p], e2[p]) ELSE Coerce(e1[p]) # Coerce(e2[p])

RECURSIVE DifferingFrom(_, _, _)
DifferingFrom(e1, e2, i) ==
    IF i > Len(PropOrder) THEN << >>
    ELSE (IF PropDiffers(e1, e2, PropOrder[i]) THEN <<PropOrder[i]>> ELSE << >>)
         \o DifferingFrom(e1, e2, i + 1)

\* The texts that show a value of the event in a property change.
Shows(p, v) ==
    IF IsDateProp(p)
    THEN IF Defined(v) THEN {Isoformat(v), DateStr(v)} ELSE {"", NoneV}
    ELSE {Coerce(v)}

\* C10: the property differ reports exactly the properties whose values differ,
\* once each, in the order summary, description, categories, dtstart, dtend,
\* with the before value as old_value and the after value as new_value.
C10_PropertyDiffer ==
    pc = "diffed" =>
        LET expected == DifferingFrom(event1, event2, 1)
        IN  /\ Len(prop_changes) = Len(expected)
            /\ \A i \in 1..Len(prop_changes) :
                  /\ prop_changes[i].property = expected[i]
                  /\ prop_changes[i].old_value \in Shows(expected[i], event1[expected[i]])
                  /\ prop_changes[i].new_value \in Shows(expected[i], event2[expected[i]])

C10_Witness ==
    /\ pc = "diffed"
    /\ Len(prop_changes) = 3
    /\ prop_changes[1].property = "description"
    /\ prop_changes[3].property = "dtend"

\* ------------------------------------------------------------------ vocabulary of the list properties
\* detect_event_changes_detailed returned its dictionary.
DetectReturned == pc \in {"detected", "done", "sort_failed"}

Range(seq) == {seq[i] : i \in 1..Len(seq)}
Unkeyed(e) == e.uid \in {"", NoneV}
Keyed(e) == e.uid \notin {"", NoneV, Absent}
KeyedUidSet(events) == {e.uid : e \in {x \in Range(events) : Keyed(x)}}
UniqueUids(events) ==
    \A i, j \in 1..Len(events) : i # j => events[i].uid # events[j].uid
UniqueNonEmptyUids(events) ==
    UniqueUids(events) /\ \A i \in 1..Len(events) : Keyed(events[i])
LastOfUid(events, i) == \A j \in (i + 1)..Len(events) : events[j].uid # events[i].uid

\* A list as extract_events returns it: every field present, uid and the texts
\* strings, the events sorted by dtstart (None as datetime.min).
ParserKey(e) == IF Defined(e.dtstart) THEN e.dtstart ELSE DatetimeMin
ParsedList(events) ==
    /\ \A i \in 1..Len(events) :
          /\ events[i].uid \notin {Absent, NoneV}
          /\ \A p \in {"summary", "description", "categories"} :
                events[i][p] \notin {Absent, NoneV}
          /\ events[i].dtstart # AbsentDate
          /\ events[i].dtend # AbsentDate
    /\ \A i, j \in 1..Len(events) :
          /\ ParserKey(events[i]).kind = ParserKey(events[j]).kind
          /\ i < j => ParserKey(events[i]).t <= ParserKey(events[j]).t

ChangedTypes == {"modified", "moved", "duration_changed"}

\* The fallback key of an event without uid: (ISO start or '', summary).
FallbackKey(e) == <<IF Defined(e.dtstart) THEN Isoformat(e.dtstart) ELSE "", e.summary>>
UnkeyedKeys(events) == {FallbackKey(e) : e \in {x \in Range(events) : Unkeyed(x)}}

\* ------------------------------------------------------------------ C1
\* C1: the semantic diff of a list with unique non-empty uids against itself
\* has unchanged = len(X), every other count 0 and an empty sequence.
C1_SelfDiff ==
    (/\ pc = "done"
     /\ events1 = events2
     /\ UniqueNonEmptyUids(events1)
     /\ ParsedList(events1)) =>
        /\ statistics = [added |-> 0, deleted |-> 0, modified |-> 0, moved |-> 0,
                         duration_changed |-> 0, unchanged |-> Len(events1)]
        /\ sorted_changes = << >>

\* ------------------------------------------------------------------ C2
\* C2: each of added, deleted, modified, moved, duration_changed counts its
\* list, and unchanged is the number of matched pairs minus the modified, moved
\* and duration_changed ones.
C2_Statistics ==
    (pc = "done" /\ ParsedList(events1) /\ ParsedList(events2)) =>
        /\ statistics.added = Len(changes.added)
        /\ statistics.deleted = Len(changes.deleted)
        /\ statistics.modified = Len(changes.modified)
        /\ statistics.moved = Len(changes.moved)
        /\ statistics.duration_changed = Len(changes.duration_changed)
        /\ statistics.unchanged =
              Len(pairs) - (Len(changes.modified) + Len(changes.moved)
                            + Len(changes.duration_changed))

\* ------------------------------------------------------------------ C3
\* How often an event of before is a deleted entry or the before side of a
\* pair, and an event of after an added entry or the after side of a pair.
AccountedBefore(e) ==
    Cardinality({k \in 1..Len(changes.deleted) : changes.deleted[k].event = e})
    + Cardinality({k \in 1..Len(pairs) : pairs[k].event1 = e})
AccountedAfter(e) ==
    Cardinality({k \in 1..Len(changes.added) : changes.added[k].event = e})
    + Cardinality({k \in 1..Len(pairs) : pairs[k].event2 = e})

\* No event without uid is due in added or deleted by its fallback key.
NoFallbackEntryDue ==
    /\ \A j \in 1..Len(events2) :
          Unkeyed(events2[j]) => FallbackKey(events2[j]) \in UnkeyedKeys(events1)
    /\ \A i \in 1..Len(events1) :
          Unkeyed(events1[i]) => FallbackKey(events1[i]) \in UnkeyedKeys(events2)

UidsIn(records) == {records[k].uid : k \in 1..Len(records)}
OnePerUid(records) == Cardinality(UidsIn(records)) = Len(records)

\* C7: over the events with a non-empty uid, added holds the after events whose
\* uid is no uid of before, deleted the before events whose uid is no uid of
\* after, and the uids of both sides are the pairs; one record for each uid,
\* and with both lists empty every list is empty.
C7_KeyedMatching ==
    DetectReturned =>
        LET uids1 == KeyedUidSet(events1)
            uids2 == KeyedUidSet(events2)
        IN  /\ UidsIn(changes.added) = uids2 \ uids1
            /\ UidsIn(changes.deleted) = uids1 \ uids2
            /\ UidsIn(pairs) = uids1 \cap uids2
            /\ OnePerUid(changes.added) /\ OnePerUid(changes.deleted) /\ OnePerUid(pairs)
            /\ \A k \in 1..Len(changes.added) :
                  /\ changes.added[k].event \in Range(events2)
                  /\ changes.added[k].event.uid = changes.added[k].uid
            /\ \A k \in 1..Len(changes.deleted) :
                  /\ changes.deleted[k].event \in Range(events1)
                  /\ changes.deleted[k].event.uid = changes.deleted[k].uid
            /\ \A k \in 1..Len(pairs) :
                  /\ pairs[k].event1 \in Range(events1)
                  /\ pairs[k].event2 \in Range(events2)
                  /\ pairs[k].event1.uid = pairs[k].uid
                  /\ pairs[k].event2.uid = pairs[k].uid
            /\ \A t \in ChangedTypes : \A k \in 1..Len(changes[t]) :
                  \E m \in 1..Len(pairs) :
                      /\ pairs[m].event1 = changes[t][k].event1
                      /\ pairs[m].event2 = changes[t][k].event2
                      /\ pairs[m].change_type = t
            /\ UniqueUids(events2) =>
                  {changes.added[k].event : k \in 1..Len(changes.added)}
                      = {e \in Range(events2) : Keyed(e) /\ e.uid \notin uids1}
            /\ UniqueUids(events1) =>
                  {changes.deleted[k].event : k \in 1..Len(changes.deleted)}
                      = {e \in Range(events1) : Keyed(e) /\ e.uid \notin uids2}
            /\ (events1 = << >> /\ events2 = << >>) =>
                  /\ changes = [added |-> << >>, deleted |-> << >>, modified |-> << >>,
                                moved |-> << >>, duration_changed |-> << >>]
                  /\ pairs = << >>

C7_Witness ==
    /\ DetectReturned
    /\ Len(changes.added) = 1
    /\ Len(changes.deleted) = 1
    /\ Len(events1) + Len(events2) = 3

\* ------------------------------------------------------------------ C8
\* C8: an after event without uid whose fallback key is the key of no before
\* event without uid is in added, and a before event without uid whose fallback
\* key is the key of no after event without uid is in deleted.
C8_FallbackMatching ==
    DetectReturned =>
        /\ \A j \in 1..Len(events2) :
              (Unkeyed(events2[j]) /\ FallbackKey(events2[j]) \notin UnkeyedKeys(events1)) =>
                  \E k \in 1..Len(changes.added) : changes.added[k].event = events2[j]
        /\ \A i \in 1..Len(events1) :
              (Unkeyed(events1[i]) /\ FallbackKey(events1[i]) \notin UnkeyedKeys(events2)) =>
                  \E k \in 1..Len(changes.deleted) : changes.deleted[k].event = events1[i]

\* ------------------------------------------------------------------ C9
\* The event is in no output list and was not given to the classifier.
NotReported(e) ==
    /\ \A k \in 1..Len(changes.added) : changes.added[k].event # e
    /\ \A k \in 1..Len(changes.deleted) : changes.deleted[k].event # e
    /\ \A k \in 1..Len(pairs) : pairs[k].event1 # e /\ pairs[k].event2 # e
    /\ \A t \in ChangedTypes : \A k \in 1..Len(changes[t]) :
          changes[t][k].event1 # e /\ changes[t][k].event2 # e

SameFallbackKey(i, j) ==
    /\ Unkeyed(events1[i])
    /\ Unkeyed(events2[j])
    /\ FallbackKey(events1[i]) = FallbackKey(events2[j])

\* C9: events without uid that are in before and in after with the same
\* (start, summary) are in neither added nor deleted, are not given to the
\* classifier and are in none of modified, moved, duration_changed.
C9_ScenarioE ==
    DetectReturned =>
        \A i \in 1..Len(events1) : \A j \in 1..Len(events2) :
            SameFallbackKey(i, j) => NotReported(events1[i]) /\ NotReported(events2[j])

C9_Witness ==
    /\ DetectReturned
    /\ \E i \in 1..Len(events1) : \E j \in 1..Len(events2) :
          SameFallbackKey(i, j) /\ Defined(events1[i].dtstart)
    /\ Len(changes.added) = 1

\* ------------------------------------------------------------------ C11
\* What a date side is reported as: its ISO-8601 string, null when absent.
IsoOrNull(v) == IF Defined(v) THEN Isoformat(v) ELSE NoneV

\* C11: every property change for dtstart or dtend has the value kind datetime,
\* a defined side reported as its ISO-8601 string and an absent side as null,
\* also when only one of the two events has the date; the changes of summary,
\* description and categories have the value kind string.
C11_DateEntries ==
    pc = "diffed" =>
        \A i \in 1..Len(prop_changes) :
            LET c == prop_changes[i]
            IN  IF IsDateProp(c.property)
                THEN /\ c.change_type = "datetime"
                     /\ c.old_value = IsoOrNull(event1[c.property])
                     /\ c.new_value = IsoOrNull(event2[c.property])
                ELSE c.change_type = "string"

\* ------------------------------------------------------------------ C12
\* C12: whenever the classifier answers something other than unchanged for a
\* pair, the property differ reports at least one property change for it, so
\* no modified, moved or duration_changed record has an empty change list.
C12_ChangesNonEmpty ==
    (pc = "diffed" /\ change_type # "unchanged") => Len(prop_changes) >= 1

\* ------------------------------------------------------------------ vocabulary of the sequence properties
\* The date an entry is ordered by: its sort date, the sentinel when absent.
OrDatetimeMin(d) == IF Defined(d) THEN d ELSE DatetimeMin
OrderDate(entry) == OrDatetimeMin(entry.sort_date)

\* The start the sort date of an entry derives from.
StartOf(entry) ==
    IF entry.change_type \in {"added", "deleted"}
    THEN entry.change_data.event.dtstart
    ELSE entry.change_data.event2.dtstart

PositionIn(seq, x) == CHOOSE k \in 1..Len(seq) : seq[k] = x

\* ------------------------------------------------------------------ C13
\* C13: in the sequence _sort_changes_chronologically returns, the sort date of
\* an entry is less than or equal to the sort date of the next entry, an absent
\* start counting as the sentinel datetime.min.
C13_SortMonotone ==
    pc = "done" =>
        \A i \in 1..(Len(sorted_changes) - 1) :
            /\ OrderDate(sorted_changes[i]).kind = OrderDate(sorted_changes[i + 1]).kind
            /\ OrderDate(sorted_changes[i]).t <= OrderDate(sorted_changes[i + 1]).t

C13_Witness ==
    /\ pc = "done"
    /\ Len(sorted_changes) = 2
    /\ OrderDate(sorted_changes[1]).t < OrderDate(sorted_changes[2]).t
    /\ sorted_changes[1].change_type = "deleted"
    /\ sorted_changes[2].change_type = "added"

\* ------------------------------------------------------------------ C14
TieOrderStated == <<"deleted", "modified", "moved", "duration_changed", "added">>
TieOrderOfDict == <<"added", "deleted", "modified", "moved", "duration_changed">>

\* Entries of equal sort date are grouped by change type in the given order,
\* and entries of one type keep the order of their list in changes.
TiesFollow(order) ==
    \A i, j \in 1..Len(sorted_changes) :
        (i < j /\ OrderDate(sorted_changes[i]) = OrderDate(sorted_changes[j])) =>
            LET a == sorted_changes[i]
                b == sorted_changes[j]
            IN  /\ PositionIn(order, a.change_type) <= PositionIn(order, b.change_type)
                /\ a.change_type = b.change_type =>
                      PositionIn(changes[a.change_type], a.change_data)
                          < PositionIn(changes[a.change_type], b.change_data)

\* C14 (as stated): among entries of equal sort date the order is Deleted,
\* Modified, Moved, DurationChanged, Added, and entries of one type keep their
\* relative order from the per-type lists.
C14_TieOrder == pc = "done" => TiesFollow(TieOrderStated)

\* C14 (amended): among entries of equal sort date the order is Added, Deleted,
\* Modified, Moved, DurationChanged (the key order of the changes dictionary),
\* and entries of one type keep their relative order from the per-type lists.
C14_TieOrderAmended == pc = "done" => TiesFollow(TieOrderOfDict)

C14_Witness ==
    /\ pc = "done"
    /\ \E i, j \in 1..Len(sorted_changes) :
          /\ i < j
          /\ OrderDate(sorted_changes[i]) = OrderDate(sorted_changes[j])
          /\ sorted_changes[i].change_type = "added"
          /\ sorted_changes[j].change_type = "deleted"

\* ------------------------------------------------------------------ C15
\* C15: the sort date of an entry is the start of its event (added, deleted) or
\* of its after event (modified, moved, duration_changed), and datetime.min
\* whenever that start is missing or None.
C15_SortDate ==
    (pc = "done" /\ ParsedList(events1) /\ ParsedList(events2)) =>
        \A i \in 1..Len(sorted_changes) :
            sorted_changes[i].sort_date = OrDatetimeMin(StartOf(sorted_changes[i]))

\* ------------------------------------------------------------------ C16
\* C16: for any two lists of event records, records with absent fields
\* included, matching, classification, property diffing and sorting complete
\* with a result; no error reaches the caller.
C16_NeverRaises == raised = "none" /\ pc \notin {"detect_failed", "sort_failed"}

\* ------------------------------------------------------------------ C20
\* The output records that carry the uid.
RecordsOf(uid) ==
    {<<t, k>> \in {"added", "deleted", "modified", "moved", "duration_changed"} \X (1..MaxEvents + 1) :
        k <= Len(changes[t]) /\ changes[t][k].uid = uid}
IsLastWith(events, e) ==
    \E i \in 1..Len(events) : events[i] = e /\ LastOfUid(events, i)
HasDuplicateUid(events) ==
    \E i, j \in 1..Len(events) : i < j /\ Keyed(events[i]) /\ events[i].uid = events[j].uid

\* C20: with several events of one non-empty uid on a side, matching uses the
\* last of them, the earlier ones take no part, the output has at most one
\* record for the uid, and no error is raised.
C20_DuplicateUid ==
    /\ pc = "detect_failed" => UidMissing(events1) \/ UidMissing(events2)
    /\ DetectReturned =>
          /\ \A u \in KeyedUidSet(events1) \cup KeyedUidSet(events2) :
                Cardinality(RecordsOf(u)) <= 1
          /\ \A k \in 1..Len(changes.added) : IsLastWith(events2, changes.added[k].event)
          /\ \A k \in 1..Len(changes.deleted) : IsLastWith(events1, changes.deleted[k].event)
          /\ \A k \in 1..Len(pairs) :
                IsLastWith(events1, pairs[k].event1) /\ IsLastWith(events2, pairs[k].event2)
          /\ \A t \in ChangedTypes : \A k \in 1..Len(changes[t]) :
                /\ IsLastWith(events1, changes[t][k].event1)
                /\ IsLastWith(events2, changes[t][k].event2)

C20_Witness ==
    /\ DetectReturned
    /\ Len(events1) = 2
    /\ events1[1].uid = events1[2].uid
    /\ events1[1] # events1[2]
    /\ Keyed(events1[1])
    /\ Len(changes.modified) = 1

\* ------------------------------------------------------------------ C17
\* C17: under every interleaving of two threads that call
\* generate_event_semantic_diff on one analyzer, each call returns what it
\* returns when run alone, and the events it compares are those of its own files.
C17_ThreadsIndependent ==
    \A t \in Threads :
        thread_pc[t] = "returned" =>
            /\ analysis1[t] = files[t].file1
            /\ analysis2[t] = files[t].file2
            /\ diff_result[t] = SemanticDiff(files[t].file1, files[t].file2)

\* ------------------------------------------------------------------ C18
\* A start or end that is a text but no date: no format accepts it, and the
\* fallback parser is missing or rejects it too.
IsText(s) == s \notin {Absent, NoneV, ""}
KnownFormat(s) == \E i \in 1..Len(Formats) : Strptime(s, Formats[i]).ok
Unparsable(s) ==
    IsText(s) /\ ~KnownFormat(s) /\ (dateutil_installed => ~DateutilParse(s).ok)
Parsable(s) == IsText(s) /\ ~Unparsable(s)
\* The canonical field of a source field: None for a text that is no date, a
\* date-time for a text that is one.
FieldConverted(s, d) ==
    /\ Unparsable(s) => d = NoneDate
    /\ Parsable(s) => Defined(d)
UsedPeriods(periods) == SelectSeq(periods, LAMBDA p : IsText(p.start) /\ IsText(p.end))

\* C18: every call of normalize_aws_calendar_to_ics on a document returns a
\* list, with one canonical event per record; a start or end that no known
\* format parses is None in its event, and the fields that can be parsed are
\* converted all the same.
C18_FailurePolicy ==
    aws_calendar_data.json =>
        \A c \in 1..Len(conversions) :
            LET records == IF aws_calendar_data.events # << >>
                           THEN aws_calendar_data.events
                           ELSE UsedPeriods(aws_calendar_data.periods)
                result == conversions[c]
            IN  /\ result.raised = "none"
                /\ Len(result.events) = Len(records)
                /\ \A i \in 1..Len(records) :
                      /\ FieldConverted(records[i].start, result.events[i].dtstart)
                      /\ FieldConverted(records[i].end, result.events[i].dtend)

C18_Witness ==
    /\ pc = "aws_once"
    /\ dateutil_installed
    /\ Len(aws_calendar_data.events) = 2
    /\ aws_calendar_data.events[1].start = "not a date"
    /\ conversions[1].raised = "none"
    /\ conversions[1].events[1].dtstart = NoneDate
    /\ Defined(conversions[1].events[1].dtend)
    /\ Defined(conversions[1].events[2].dtstart)

\* ------------------------------------------------------------------ C19
\* Canonical event i was made from a record without id (a period has none).
HasNoId(i) ==
    IF aws_calendar_data.events # << >>
    THEN aws_calendar_data.events[i].id = Absent
    ELSE TRUE

\* C19: two calls of normalize_aws_calendar_to_ics on the same document give
\* a record without id the same placeholder uid.
C19_PlaceholderUid ==
    (pc = "aws_twice" /\ conversions[1].raised = "none" /\ conversions[2].raised = "none") =>
        \A i \in 1..Len(conversions[1].events) :
            HasNoId(i) => conversions[1].events[i].uid = conversions[2].events[i].uid

\* ------------------------------------------------------------------ C21
AllTypes == {"added", "deleted", "modified", "moved", "duration_changed"}
\* The places of the sequence that hold record k of the list of a type.
PlacesOf(t, k) ==
    {i \in 1..Len(sorted_changes) :
        sorted_changes[i].change_type = t /\ sorted_changes[i].change_data = changes[t][k]}

\* C21: every record of the five lists is exactly once in the sequence
\* _sort_changes_chronologically returns, under the type of its list; the
\* sequence holds nothing else, and its length is the sum of the list lengths.
C21_SequenceComplete ==
    pc = "done" =>
        /\ \A t \in AllTypes : \A k \in 1..Len(changes[t]) : Cardinality(PlacesOf(t, k)) = 1
        /\ \A i \in 1..Len(sorted_changes) :
              /\ sorted_changes[i].change_type \in AllTypes
              /\ \E k \in 1..Len(changes[sorted_changes[i].change_type]) :
                    i \in PlacesOf(sorted_changes[i].change_type, k)
        /\ Len(sorted_changes) =
              Len(changes.added) + Len(changes.deleted) + Len(changes.modified)
              + Len(changes.moved) + Len(changes.duration_changed)

C21_Witness ==
    /\ pc = "done"
    /\ Len(changes.deleted) = 1
    /\ Len(changes.moved) = 1
    /\ Len(sorted_changes) = 2
    /\ sorted_changes[1].change_type = "deleted"
    /\ sorted_changes[2].change_type = "moved"

\* ------------------------------------------------------------------ C22
HasDateEntry(entries) ==
    \E i \in 1..Len(entries) : entries[i].property \in {"dtstart", "dtend"}

\* C22: a pair classified moved or duration_changed has, in the list
\* _get_detailed_property_changes gives for it (the list detect_event_changes_detailed
\* stores in its record), at least one entry for dtstart or dtend.
C22_DateEntryPresent ==
    (pc = "diffed" /\ change_type \in {"moved", "duration_changed"}) =>
        HasDateEntry(prop_changes)

C22_Witness ==
    /\ pc = "diffed"
    /\ change_type = "moved"
    /\ event1.dtstart = [kind |-> "naive", t |-> 0]
    /\ event2.dtstart = [kind |-> "aware", t |-> 0]
    /\ event1.dtend = event2.dtend
    /\ Len(prop_changes) = 1
    /\ prop_changes[1].property = "dtstart"

\* ------------------------------------------------------------------ C23
HasEntryFor(entries, p) == \E i \in 1..Len(entries) : entries[i].property = p

\* C23: in a record detect_event_changes_detailed stores under moved or
\* duration_changed, every text property (summary, description, categories)
\* that differs between the two events has its entry in the property changes,
\* next to the entries for dtstart and dtend.
C23_TextKeptUnderDates ==
    DetectReturned =>
        \A t \in {"moved", "duration_changed"} : \A k \in 1..Len(changes[t]) :
            LET r == changes[t][k]
            IN  /\ \A p \in {"summary", "description", "categories"} :
                      Coerce(r.event1[p]) # Coerce(r.event2[p]) => HasEntryFor(r.changes, p)
                /\ HasEntryFor(r.changes, "dtstart") \/ HasEntryFor(r.changes, "dtend")

C23_Witness ==
    /\ DetectReturned
    /\ Len(changes.moved) = 1
    /\ changes.moved[1].event1.summary = "a"
    /\ changes.moved[1].event2.summary = "b"
    /\ HasEntryFor(changes.moved[1].changes, "summary")
    /\ HasEntryFor(changes.moved[1].changes, "dtstart")

\* ------------------------------------------------------------------ C24
\* The classifier cannot evaluate the pair: a date differs, all four dates are
\* there, and one event has a naive and an aware date, so that end - start
\* raises TypeError.
EvaluationFails(e1, e2) ==
    DatesDiffer(e1, e2) /\ AllDefined(e1, e2) /\ (~Computable(e1) \/ ~Computable(e2))
CommonUids == KeyedUidSet(events1) \cap KeyedUidSet(events2)

\* C24: a pair the classifier cannot evaluate is classified modified, the
\* error does not leave classify_event_changes, and
\* detect_event_changes_detailed goes on: it returns, and every uid of both
\* lists has its classified pair.
C24_ClassifierFallback ==
    /\ pc # "detect_failed"
    /\ DetectReturned =>
          /\ UidsIn(pairs) = CommonUids
          /\ Len(pairs) = Cardinality(CommonUids)
          /\ \A k \in 1..Len(pairs) :
                EvaluationFails(pairs[k].event1, pairs[k].event2) =>
                    /\ pairs[k].change_type = "modified"
                    /\ pairs[k].uid \in UidsIn(changes.modified)

C24_Witness ==
    /\ DetectReturned
    /\ Len(pairs) = 2
    /\ EvaluationFails(pairs[1].event1, pairs[1].event2)
    /\ pairs[1].change_type = "modified"
    /\ pairs[2].change_type = "duration_changed"
    /\ Len(changes.modified) = 1
    /\ Len(changes.duration_changed) = 1

\* ------------------------------------------------------------------ C25
Compared == pc \in {"compared", "compare_failed"}
StringTexts(events) ==
    \A i \in 1..Len(events) : \A p \in {"summary", "description", "categories"} :
        events[i][p] \notin {Absent, NoneV}
\* Uids of the records of a list of detect_event_changes.
ItemUids(items) ==
    {(IF items[k].change_type = "modified" THEN items[k].event2 ELSE items[k].event).uid :
        k \in 1..Len(items)}

\* C25: for two lists with unique non-empty uids whose events have strings as
\* summary, description and categories, detect_event_changes reports the
\* added and deleted uids of detect_event_changes_detailed, and as modified
\* the uids the latter reports as modified, moved or duration_changed.
C25_SameChanges ==
    (/\ Compared
     /\ UniqueNonEmptyUids(events1) /\ UniqueNonEmptyUids(events2)
     /\ StringTexts(events1) /\ StringTexts(events2)) =>
        /\ simple_changes.raised = "none"
        /\ ItemUids(simple_changes.added) = UidsIn(changes.added)
        /\ ItemUids(simple_changes.deleted) = UidsIn(changes.deleted)
        /\ ItemUids(simple_changes.modified) =
              UidsIn(changes.modified) \cup UidsIn(changes.moved)
              \cup UidsIn(changes.duration_changed)

\* ------------------------------------------------------------------ C26
LocalOnlyUids == KeyedUidSet(events1) \ KeyedUidSet(events2)
AwsOnlyUids == KeyedUidSet(events2) \ KeyedUidSet(events1)
EventsOf(records) == {records[k].event : k \in 1..Len(records)}

\* C26: in the result of compare_with_aws_change_calendar, local_only holds
\* the events whose uid is in the local file and not in the AWS calendar,
\* aws_only those whose uid is in the AWS calendar and not in the local file,
\* and the two counts are the sizes of these sets.
C26_LocalAndAwsOnly ==
    pc = "aws_compared" =>
        /\ UidsIn(aws_comparison.differences.local_only) = LocalOnlyUids
        /\ EventsOf(aws_comparison.differences.local_only) \subseteq Range(events1)
        /\ aws_comparison.statistics.local_only = Cardinality(LocalOnlyUids)
        /\ UidsIn(aws_comparison.differences.aws_only) = AwsOnlyUids
        /\ EventsOf(aws_comparison.differences.aws_only) \subseteq Range(events2)
        /\ aws_comparison.statistics.aws_only = Cardinality(AwsOnlyUids)

\* ------------------------------------------------------------------ C27
InSyncRecommended ==
    \E i \in 1..Len(aws_comparison.recommendations) :
        aws_comparison.recommendations[i].message
            = "local file and AWS Change Calendar are in sync"

\* C27: when detect_event_changes_detailed finds an added, deleted, modified,
\* moved or duration_changed event, the recommendations do not hold the
\* sentence that the local file and the AWS Change Calendar are in sync.
C27_InSyncOnlyWhenEqual ==
    (pc = "aws_compared" /\ changes # NoChanges) => ~InSyncRecommended

\* ------------------------------------------------------------------ C28
\* C28: every canonical event of normalize_aws_calendar_to_ics has a uid that
\* is not empty (whether the id of its record is missing, null or empty) and
\* has the categories "AWS-Change-Calendar".
C28_UidAndMarker ==
    \A c \in 1..Len(conversions) :
        conversions[c].raised = "none" =>
            \A i \in 1..Len(conversions[c].events) :
                /\ Truthy(conversions[c].events[i].uid)
                /\ conversions[c].events[i].categories = "AWS-Change-Calendar"

\* ------------------------------------------------------------------ C29
\* C29: the uids detect_event_changes_detailed(events1, events2) reports as
\* added are those detect_event_changes_detailed(events2, events1) reports as
\* deleted and the other way round, and the uids of modified, of moved and of
\* duration_changed are the same in both directions.
C29_Symmetry ==
    pc = "reversed" =>
        /\ UidsIn(changes.added) = UidsIn(reverse_changes.deleted)
        /\ UidsIn(changes.deleted) = UidsIn(reverse_changes.added)
        /\ UidsIn(changes.modified) = UidsIn(reverse_changes.modified)
        /\ UidsIn(changes.moved) = UidsIn(reverse_changes.moved)
        /\ UidsIn(changes.duration_changed) = UidsIn(reverse_changes.duration_changed)

C29_Witness ==
    /\ pc = "reversed"
    /\ Len(changes.added) = 1
    /\ Len(reverse_changes.deleted) = 1
    /\ Len(changes.duration_changed) = 1
    /\ Len(reverse_changes.duration_changed) = 1

\* ------------------------------------------------------------------ C30
\* C30: no step of the engine changes its inputs: the two event lists hold
\* the same events with the same field values in the same order after
\* detect_event_changes_detailed (with classify_event_changes and
\* _get_detailed_property_changes inside) and after
\* _sort_changes_chronologically, and the lists of types given to the sorter
\* are the same after it.
C30_InputsUntouched ==
    [][/\ events1' = events1
       /\ events2' = events2
       /\ (pc = "detected" => changes' = changes)]_vars

\* The sorter has put the records in another order than the lists have them,
\* and a pair was classified.
C30_Witness ==
    /\ pc = "done"
    /\ Len(changes.deleted) = 1
    /\ Len(changes.moved) + Len(changes.duration_changed) + Len(changes.modified) = 1
    /\ sorted_changes # AllChanges(changes)

====
